---- MODULE Spec2Model ----
(***************************************************************************)
(* Model of src/endpoints/slack.py: SlackEndpoint._invoke handling one     *)
(* webhook delivery, and SlackEndpoint._get_thread_context.                *)
(*                                                                         *)
(* Strings are sequences of tokens (a token is a piece of text that the    *)
(* code never looks inside); None is the string "None".  Time is counted   *)
(* in tenths of a second.  Every collaborator call (chat client, backend,  *)
(* store) is logged in calls with its arguments, its outcome and the time  *)
(* it was issued.  Deliveries running at once are followed through their   *)
(* store calls in a specification of their own.                            *)
(***************************************************************************)
EXTENDS Integers, Sequences, FiniteSets, TLC

VARIABLES
    settings,                 \* plugin settings: allow_retry
    headers,                  \* request headers X-Slack-Retry-Num / -Reason
    data,                     \* r.get_json(): the JSON envelope
    pc,                       \* position of _invoke
    resp,                     \* the Response returned to the wire caller
    calls,                    \* log of collaborator calls, in order
    store,                    \* self.session.storage, by thread key
    thread,                   \* texts of the messages this turn put in the thread
    message,                  \* local: stripped mention text
    thread_ts,                \* local: thread anchor
    bot_user_id,              \* local
    thread_context,           \* local
    conversation_id,          \* local: handle read from the store
    response_ts,              \* local: position in thread of the placeholder
    full_answer,              \* local: accumulated answer
    response_conversation_id, \* local: handle captured from the backend
    last_update_time,         \* local
    current_time,             \* local
    now,                      \* time.time()
    chunks_seen,              \* number of chunks the stream has yielded
    max_chunks,               \* number of chunks the backend yields at most
    streaming_error,          \* exception bound by "as streaming_error"
    completion_error,         \* exception bound by "as completion_error"
    e,                        \* exception bound by the main handler's "as e"
    response,                 \* local: response of the blocking completion
    answer,                   \* local: its answer
    ref,                      \* reference delivery of the header-independence check
    ctx_in,                   \* arguments of a stand-alone _get_thread_context call
    ctx_out,                  \* its return value
    chunk_names,              \* the shapes of chunk the backend's stream yields
    deliveries,               \* concurrent deliveries: position and locals of each
    history                   \* what the concurrent deliveries did to the store

vars == <<settings, headers, data, pc, resp, calls, store, thread, message,
          thread_ts, bot_user_id, thread_context, conversation_id, response_ts,
          full_answer, response_conversation_id, last_update_time, current_time,
          now, chunks_seen, max_chunks, streaming_error, completion_error, e,
          response, answer, ref, ctx_in, ctx_out, chunk_names, deliveries, history>>

None == "None"

\* ------------------------------------------------------------------ bounds
\* chunks one stream yields at most, for deliveries of every kind
MaxChunks == 1
\* chunks one stream yields at most, for the mention the stream is studied on
MaxStreamChunks == 2
\* messages of a thread history given to _get_thread_context on its own
MaxMsgs == 3

\* --------------------------------------------------------------- constants
\* update_interval = 1.0 second, in tenths of a second
update_interval == 10

ThinkingText == <<"Thinking...">>
NoAnswerText == <<"Sorry, I couldn't generate a response.">>
ApologyText(err) ==
    <<"Sorry, I'm having trouble processing your request. Error: ", err>>

\* the message of the backend's exception when the app is of another kind
\* than the invocation mode
AppTypeError == "unexpected app type"

\* ------------------------------------------------------------ string helpers
\* a variant of StartsWithMention: the marker anywhere in the text
MentionAnywhere(text) == \E i \in 1..Len(text) : text[i] = "<@"

\* text.startswith("<@")
StartsWithMention(text) == Len(text) > 0 /\ text[1] = "<@"

\* "> " in text
HasDelimiter(text) == \E i \in 1..Len(text) : text[i] = "> "

FirstDelimiter(text) == CHOOSE i \in 1..Len(text) :
    text[i] = "> " /\ \A j \in 1..(i - 1) : text[j] # "> "

\* text.split("> ", 1)[1] if "> " in text else text
StripMention(text) ==
    IF HasDelimiter(text)
    THEN SubSeq(text, FirstDelimiter(text) + 1, Len(text))
    ELSE text

\* int(retry_num) for the numerals Slack sends in X-Slack-Retry-Num
ParseInt(s) == CASE s = "0" -> 0 [] s = "1" -> 1 [] s = "2" -> 2 [] s = "3" -> 3

\* converter.convert: markdown to Slack mrkdwn; bold "**" becomes "*"
Convert(text) == [i \in 1..Len(text) |-> IF text[i] = "**" THEN "*" ELSE text[i]]

\* ------------------------------------------------- _get_thread_context
\* A message of a thread history: [ts, user, bot_id, text]; an absent field
\* is None.

\* msg.get("bot_id") or msg.get("user") == bot_user_id
IsBotMessage(msg, bot) == msg.bot_id # None \/ msg.user = bot

\* The backwards scan for the last bot message that is not the current one;
\* positions count from 1, 0 is the code's "not found" (-1).
LastBotIndex(messages, current_message_ts, bot) ==
    LET S == {i \in 1..Len(messages) :
                 /\ messages[i].ts # current_message_ts
                 /\ IsBotMessage(messages[i], bot)}
    IN IF S = {} THEN 0 ELSE CHOOSE i \in S : \A j \in S : j <= i

\* start_index = last_bot_index + 1 if last_bot_index >= 0 else 0, as the
\* position (from 1) of the first message of messages[start_index:]
StartIndex(messages, current_message_ts, bot) ==
    LastBotIndex(messages, current_message_ts, bot) + 1

\* the loop body: skip the current message
SkipInContext(msg, current_message_ts) == msg.ts = current_message_ts

\* f"[{user}]: {text}" with the leading mention removed from text
ContextPart(msg) ==
    LET user == IF msg.user = None THEN "unknown" ELSE msg.user
        text == IF StartsWithMention(msg.text) THEN StripMention(msg.text)
                ELSE msg.text
    IN <<"[", user, "]: ">> \o text

RECURSIVE ContextParts(_, _, _)
\* context_parts built by the loop over messages[start_index:]
ContextParts(messages, i, current_message_ts) ==
    IF i > Len(messages) THEN <<>>
    ELSE IF SkipInContext(messages[i], current_message_ts)
         THEN ContextParts(messages, i + 1, current_message_ts)
         ELSE <<ContextPart(messages[i])>>
              \o ContextParts(messages, i + 1, current_message_ts)

RECURSIVE JoinLines(_)
\* "\n".join(parts)
JoinLines(parts) ==
    IF parts = <<>> THEN <<>>
    ELSE IF Len(parts) = 1 THEN parts[1]
    ELSE parts[1] \o <<"\n">> \o JoinLines(Tail(parts))

\* _get_thread_context; fetched is FALSE when conversations_replies raises
GetThreadContext(fetched, messages, current_message_ts, bot) ==
    IF ~fetched \/ messages = <<>> THEN <<>>
    ELSE LET parts == ContextParts(messages,
                          StartIndex(messages, current_message_ts, bot),
                          current_message_ts)
         IN IF parts # <<>> THEN JoinLines(parts) \o <<"\n", "\n">> ELSE <<>>

\* ------------------------------------------------------------ input domains
RetryNums == {None, "0", "1"}
RetryReasons == {None, "http_timeout"}

ThreadKeys == {"t1", "t2"}

\* JSON envelopes: the handshake, mentions (one in a thread, one that starts
\* a thread and has no "> " after the marker), an app_mention whose text
\* does not start with the marker, another event type, another payload type
Payloads ==
    {[type |-> "url_verification", challenge |-> c, event_type |-> None,
      text |-> <<>>, ts |-> None, thread_ts |-> None] : c \in {"ch1", "ch2"}}
    \cup
    {[type |-> "event_callback", challenge |-> None, event_type |-> "app_mention",
      text |-> <<"<@", "UB", "> ", "hi", "> ", "there">>,
      ts |-> "t2", thread_ts |-> "t1"],
     [type |-> "event_callback", challenge |-> None, event_type |-> "app_mention",
      text |-> <<"<@", "UB", ">", "hi">>, ts |-> "t2", thread_ts |-> None],
     [type |-> "event_callback", challenge |-> None, event_type |-> "app_mention",
      text |-> <<"hi", "<@", "UB", "> ">>, ts |-> "t2", thread_ts |-> None],
     [type |-> "event_callback", challenge |-> None, event_type |-> "message",
      text |-> <<"<@", "UB", "> ", "hi">>, ts |-> "t2", thread_ts |-> None],
     [type |-> "other", challenge |-> None, event_type |-> None,
      text |-> <<>>, ts |-> None, thread_ts |-> None]}

\* what conversations_replies can return for the thread of the mention: for
\* a mention in a thread, a bot message, a user's message and the mention;
\* for a mention that starts a thread, the mention alone
History(name) ==
    LET current == [ts |-> data.ts, user |-> "U1", bot_id |-> None,
                    text |-> data.text]
    IN IF name # "h1" THEN <<>>
       ELSE IF data.thread_ts = None THEN <<current>>
       ELSE << [ts |-> "t0", user |-> "UB", bot_id |-> "B1", text |-> <<"A">>],
               [ts |-> "t1", user |-> "U1", bot_id |-> None, text |-> <<"B">>],
               current >>

\* The chunks a stream can yield: wrap says how the chunk carries its data
\* ("obj": attribute data, "dict": the chunk is the mapping, "raw": neither),
\* data is "dict" or "str"; a key that is absent and a key whose value is
\* empty are both the empty value, the code treating them alike.
ChunkNames == {"answer", "text", "id", "str", "raw"}

\* the shapes met by the deliveries that are run twice
TwinChunkNames == {"answer", "raw"}

\* the shapes met by the mention the stream is studied on, one of them a
\* chunk whose answer is the whole text so far (a cumulative snapshot)
StreamChunkNames == {"answer", "text", "str", "raw", "snapshot"}

Chunk(name) ==
    CASE name = "answer" ->
           [wrap |-> "dict", data |-> "dict", conversation_id |-> "c1",
            answer |-> <<"Hel">>, text |-> <<"xx">>, str |-> <<>>]
      [] name = "text" ->
           [wrap |-> "obj", data |-> "dict", conversation_id |-> "",
            answer |-> <<>>, text |-> <<"lo">>, str |-> <<>>]
      [] name = "snapshot" ->
           [wrap |-> "dict", data |-> "dict", conversation_id |-> "",
            answer |-> <<"Hel", "lo">>, text |-> <<>>, str |-> <<>>]
      [] name = "id" ->
           [wrap |-> "dict", data |-> "dict", conversation_id |-> "c2",
            answer |-> <<>>, text |-> <<>>, str |-> <<>>]
      [] name = "str" ->
           [wrap |-> "obj", data |-> "str", conversation_id |-> "",
            answer |-> <<>>, text |-> <<>>, str |-> <<"**">>]
      [] name = "raw" ->
           [wrap |-> "raw", data |-> "str", conversation_id |-> "",
            answer |-> <<>>, text |-> <<>>, str |-> <<"zz">>]

\* time that passes between two readings of the clock: 0.1 s or 1.0 s
Delays == {1, 10}

\* responses of the blocking completion call
Completions == {"answer+id", "answer"}

CompletionAnswer(name) == <<"**", "Hi">>

CompletionConversationId(name) == IF name = "answer+id" THEN "c9" ELSE ""

\* ------------------------------------------------------------------- state
\* fields of a Response: kind names the body ("text_ok": "ok", "challenge":
\* {"challenge": ..}, "json_ok": {"ok": true}, "json_error": {"ok": false,
\* "error": ..}, "init_error": "Initialization error: .."), status the HTTP
\* status
NoResp == [kind |-> "none", status |-> 0, challenge |-> None, error |-> None]

\* the nested conditions that lead into the mention handling
IsMention(d) ==
    /\ d.type = "event_callback"
    /\ d.event_type = "app_mention"
    /\ StartsWithMention(d.text)

\* no stand-alone call of _get_thread_context is under way
NoContextCall ==
    /\ ctx_in = [fetched |-> FALSE, messages |-> <<>>, current |-> None,
                 bot |-> None]
    /\ ctx_out = <<"not called">>

\* the locals of a delivery before its first step
Fresh ==
    /\ resp = NoResp
    /\ calls = <<>>
    /\ thread = <<>>
    /\ message = <<>>
    /\ thread_ts = None
    /\ bot_user_id = None
    /\ thread_context = <<>>
    /\ conversation_id = None
    /\ response_ts = 0
    /\ full_answer = <<>>
    /\ response_conversation_id = None
    /\ last_update_time = 0
    /\ current_time = 0
    /\ now = 0
    /\ chunks_seen = 0
    /\ streaming_error = None
    /\ completion_error = None
    /\ e = None
    /\ response = None
    /\ answer = <<>>
    /\ ref = [run |-> 1, headers |-> headers, resp |-> NoResp, calls |-> <<>>,
              store |-> store]

\* any delivery, any settings, any store; the stream yields chunks of the
\* shapes names
AnyDelivery(names) ==
    /\ settings \in [allow_retry : BOOLEAN]
    /\ headers \in [retry_num : RetryNums, retry_reason : RetryReasons]
    /\ data \in Payloads
    /\ store \in {[k \in ThreadKeys |-> None], [k \in ThreadKeys |-> "c0"]}
    /\ max_chunks = MaxChunks
    /\ chunk_names = names
    /\ deliveries = <<>>
    /\ history = <<>>
    /\ pc = "start"
    /\ Fresh
    /\ NoContextCall

Init == AnyDelivery(ChunkNames)

\* the deliveries that are run twice, with and without their headers
InitTwin == AnyDelivery(TwinChunkNames)

\* a first delivery of a mention in a thread, with longer streams
InitStream ==
    /\ settings = [allow_retry |-> FALSE]
    /\ headers = [retry_num |-> None, retry_reason |-> None]
    /\ data \in {d \in Payloads : IsMention(d) /\ d.thread_ts # None}
    /\ store \in {[k \in ThreadKeys |-> None], [k \in ThreadKeys |-> "c0"]}
    /\ max_chunks = MaxStreamChunks
    /\ chunk_names = StreamChunkNames
    /\ deliveries = <<>>
    /\ history = <<>>
    /\ pc = "start"
    /\ Fresh
    /\ NoContextCall

\* a collaborator call as logged: what was called, with what, what came back,
\* how long the caller waited for it and when it was issued
Call(op, arg, out, dt) ==
    [op |-> op, arg |-> arg, out |-> out, dt |-> dt, at |-> now]

\* The outcomes a collaborator call can have: any of D, except in the second
\* delivery of the header-independence check, which meets the collaborator
\* behaviour the first delivery met.
Replaying(op) ==
    /\ ref.run = 2
    /\ Len(calls) < Len(ref.calls)
    /\ ref.calls[Len(calls) + 1].op = op

Outcomes(op, D) ==
    IF Replaying(op) /\ ref.calls[Len(calls) + 1].out \in D
    THEN {ref.calls[Len(calls) + 1].out} ELSE D

DelaysOf(op) ==
    IF Replaying(op) /\ ref.calls[Len(calls) + 1].dt \in Delays
    THEN {ref.calls[Len(calls) + 1].dt} ELSE Delays

\* ------------------------------------------------------------ _invoke
\* a variant of ShouldDiscard that looks at the retry reason only
ShouldDiscardReasonOnly(h, st) ==
    ~st.allow_retry /\ h.retry_reason = "http_timeout"

\* a variant of ShouldDiscard that does not look at allow_retry
ShouldDiscardAlways(h, st) ==
    \/ h.retry_reason = "http_timeout"
    \/ (h.retry_num # None /\ ParseInt(h.retry_num) > 0)

\* not settings.get("allow_retry") and (reason == "http_timeout" or
\* (retry_num is not None and int(retry_num) > 0))
ShouldDiscard(h, st) ==
    /\ ~st.allow_retry
    /\ \/ h.retry_reason = "http_timeout"
       \/ (h.retry_num # None /\ ParseInt(h.retry_num) > 0)

\* Response(status=200, response="ok")
OkResponse ==
    [kind |-> "text_ok", status |-> 200, challenge |-> None, error |-> None]

\* a variant of ChallengeResponse that answers with the payload type
ChallengeResponseOfType(d) ==
    [kind |-> "challenge", status |-> 200, challenge |-> d.type, error |-> None]

\* Response(json.dumps({"challenge": data.get("challenge")}), status=200)
ChallengeResponse(d) ==
    [kind |-> "challenge", status |-> 200, challenge |-> d.challenge, error |-> None]

\* Response(status=500, response=f"Initialization error: {init_error}")
InitErrorResponse(err) ==
    [kind |-> "init_error", status |-> 500, challenge |-> None, error |-> err]

\* Response(status=200, response=json.dumps({"ok": True}))
SuccessResponse ==
    [kind |-> "json_ok", status |-> 200, challenge |-> None, error |-> None]

\* Response(status=200, response=json.dumps({"ok": False, "error": str(e)}))
ErrorResponse(err) ==
    [kind |-> "json_error", status |-> 200, challenge |-> None, error |-> err]

\* a variant of StoredConversationId without the except clause's default
StoredConversationIdUnguarded(out) == IF out = None THEN "" ELSE out

\* conversation_id after storage.get: the stored value decoded, "" when
\* nothing is stored and "" when the store raised
StoredConversationId(out) == IF out = "raise" \/ out = None THEN "" ELSE out

\* a variant of ThreadTs that anchors every mention at its own message
ThreadTsOfMessage(d) == d.ts

\* thread_ts = event.get("thread_ts", message_ts)
ThreadTs(d) == IF d.thread_ts # None THEN d.thread_ts ELSE d.ts

\* a variant of StoreAfterSet that keeps a handle already stored
StoreAfterSetKeepsFirst(st, key, value) ==
    IF st[key] = None THEN [st EXCEPT ![key] = value] ELSE st

\* the store after storage.set(storage_key, value) went through
StoreAfterSet(st, key, value) == [st EXCEPT ![key] = value]

\* thread_context + f"[Current message]: {message}"
FullQuery == thread_context \o <<"[Current message]: ">> \o message

\* the chunk has data: chunk.data, or the chunk itself when it is a dict
HasChunkData(c) == c.wrap = "obj" \/ c.wrap = "dict"

\* a variant of Accumulate: the text field is looked at before the answer
AccumulatePrefersText(full, c) ==
    IF ~HasChunkData(c) THEN full
    ELSE IF c.data = "dict"
         THEN IF c.text # <<>> THEN full \o c.text
              ELSE IF c.answer # <<>> THEN full \o c.answer
              ELSE full
         ELSE full \o c.str

\* a variant of Accumulate: the text of a chunk replaces what was collected
AccumulateReplace(full, c) ==
    IF ~HasChunkData(c) THEN full
    ELSE IF c.data = "dict"
         THEN IF c.answer # <<>> THEN c.answer
              ELSE IF c.text # <<>> THEN c.text
              ELSE full
         ELSE c.str

\* full_answer after the chunk (append, don't replace)
Accumulate(full, c) ==
    IF ~HasChunkData(c) THEN full
    ELSE IF c.data = "dict"
         THEN IF c.answer # <<>> THEN full \o c.answer
              ELSE IF c.text # <<>> THEN full \o c.text
              ELSE full
         ELSE full \o c.str

\* response_conversation_id after the chunk
CaptureConversationId(id, c) ==
    IF HasChunkData(c) /\ c.data = "dict" /\ c.conversation_id # ""
    THEN c.conversation_id ELSE id

\* current_time - last_update_time >= update_interval and full_answer
ShouldRender(t, last, full) == t - last >= update_interval /\ full # <<>>

\* last_update_time after an intermediate chat_update
LastUpdateTime(out, t, last) == IF out = "ok" THEN t ELSE last

\* a variant of FinalUpdateText that leaves the placeholder text when
\* nothing was collected
FinalUpdateTextKeepsPlaceholder(full) ==
    IF full # <<>> THEN Convert(full) ELSE ThinkingText

\* the text of the final chat_update
FinalUpdateText(full) == IF full # <<>> THEN Convert(full) ELSE NoAnswerText

\* a variant of FinalUpdateCall that posts the answer as a new message
FinalUpdatePostsAnew(text, out) == Call("chat_postMessage", text, out, 0)

\* client.chat_update(channel, ts=response_ts, text=..) of the final update
FinalUpdateCall(text, out) == Call("chat_update", text, out, 0)

\* a variant of AfterFallbackFailure: an app-type error of the stream leads
\* to a further fallback
AfterFallbackFailureByAppType(s_err) ==
    IF s_err = AppTypeError THEN "workflow" ELSE "handler"

\* where a failure of the blocking fallback leads: the raise reaches the
\* main handler, whatever the streaming error says
AfterFallbackFailure(s_err) == "handler"

\* a variant of AfterStorageSet: a failed set reaches the main handler
AfterStorageSetEscalates(out) == IF out = "raise" THEN "handler" ELSE "respond"

\* a variant of AfterStorageSet: a failed set after the stream is taken for
\* a failure of the streaming path
AfterStorageSetFallsBack(out) == IF out = "raise" THEN "completion" ELSE "respond"

\* where storage.set leads: its exception is printed, the success response
\* follows either way
AfterStorageSet(out) == "respond"

\* a variant of Reraised: the fallback's own exception goes up
ReraisedCompletion(s_err, c_err) == c_err

\* raise streaming_error
Reraised(s_err, c_err) == s_err

\* lines 78-80: the retry short-circuit
Dedup ==
    /\ pc = "start"
    /\ IF ShouldDiscard(headers, settings)
       THEN pc' = "done" /\ resp' = OkResponse
       ELSE pc' = "dispatch" /\ resp' = resp
    /\ UNCHANGED <<settings, headers, data, calls, store, thread, message,
                   thread_ts, bot_user_id, thread_context, conversation_id,
                   response_ts, full_answer, response_conversation_id,
                   last_update_time, current_time, now, chunks_seen, max_chunks,
                   streaming_error, completion_error, e, response, answer,
                   ref, ctx_in, ctx_out,
                   chunk_names, deliveries, history>>

\* lines 81-102 and 311-316: classify the payload; for a mention strip the
\* marker and take the identifiers
Dispatch ==
    /\ pc = "dispatch"
    /\ IF data.type = "url_verification"
       THEN /\ pc' = "done" /\ resp' = ChallengeResponse(data)
            /\ message' = message /\ thread_ts' = thread_ts
       ELSE IF IsMention(data)
       THEN /\ pc' = "auth_test" /\ resp' = resp
            /\ message' = StripMention(data.text)
            /\ thread_ts' = ThreadTs(data)
       ELSE /\ pc' = "done" /\ resp' = OkResponse
            /\ message' = message /\ thread_ts' = thread_ts
    /\ UNCHANGED <<settings, headers, data, calls, store, thread,
                   bot_user_id, thread_context, conversation_id, response_ts,
                   full_answer, response_conversation_id, last_update_time,
                   current_time, now, chunks_seen, max_chunks, streaming_error,
                   completion_error, e, response, answer, ref, ctx_in,
                   ctx_out,
                   chunk_names, deliveries, history>>

\* lines 104-106, 126-133: client.auth_test(); its exception is the
\* initialization error
AuthTest ==
    /\ pc = "auth_test"
    /\ \E out \in Outcomes("auth_test", {"UB", "raise"}) :
         /\ calls' = Append(calls, Call("auth_test", <<>>, out, 0))
         /\ IF out = "raise"
            THEN /\ pc' = "done" /\ resp' = InitErrorResponse("auth_test failed")
                 /\ bot_user_id' = bot_user_id
            ELSE /\ pc' = "context" /\ resp' = resp
                 /\ bot_user_id' = out
    /\ UNCHANGED <<settings, headers, data, store, thread, message,
                   thread_ts, thread_context, conversation_id, response_ts,
                   full_answer, response_conversation_id, last_update_time,
                   current_time, now, chunks_seen, max_chunks, streaming_error,
                   completion_error, e, response, answer, ref, ctx_in,
                   ctx_out,
                   chunk_names, deliveries, history>>

\* lines 108-114: the thread history is fetched and the context built
ThreadContext ==
    /\ pc = "context"
    /\ \E out \in Outcomes("conversations_replies", {"h1", "raise"}) :
         /\ calls' = Append(calls, Call("conversations_replies", <<thread_ts>>, out, 0))
         /\ thread_context' =
                GetThreadContext(out # "raise", History(out), data.ts, bot_user_id)
    /\ pc' = "storage_get"
    /\ UNCHANGED <<settings, headers, data, resp, store, thread, message,
                   thread_ts, bot_user_id, conversation_id, response_ts,
                   full_answer, response_conversation_id, last_update_time,
                   current_time, now, chunks_seen, max_chunks, streaming_error,
                   completion_error, e, response, answer, ref, ctx_in,
                   ctx_out,
                   chunk_names, deliveries, history>>

\* lines 116-124: the stored conversation handle, "" when absent or when
\* the store raises
StorageGet ==
    /\ pc = "storage_get"
    /\ \E out \in Outcomes("storage.get", {store[thread_ts], "raise"}) :
         /\ calls' = Append(calls, Call("storage.get", <<thread_ts>>, out, 0))
         /\ conversation_id' = StoredConversationId(out)
    /\ pc' = "post_placeholder"
    /\ UNCHANGED <<settings, headers, data, resp, store, thread, message,
                   thread_ts, bot_user_id, thread_context, response_ts,
                   full_answer, response_conversation_id, last_update_time,
                   current_time, now, chunks_seen, max_chunks, streaming_error,
                   completion_error, e, response, answer, ref, ctx_in,
                   ctx_out,
                   chunk_names, deliveries, history>>

\* lines 139-146: the placeholder
PostPlaceholder ==
    /\ pc = "post_placeholder"
    /\ \E out \in Outcomes("chat_postMessage", {"ok", "raise"}) :
         /\ calls' = Append(calls, Call("chat_postMessage", ThinkingText, out, 0))
         /\ IF out = "ok"
            THEN /\ thread' = Append(thread, ThinkingText)
                 /\ response_ts' = Len(thread) + 1
                 /\ streaming_error' = streaming_error
                 /\ pc' = "invoke"
            ELSE /\ thread' = thread /\ response_ts' = response_ts
                 /\ streaming_error' = "chat_postMessage"
                 /\ pc' = "completion"
    /\ UNCHANGED <<settings, headers, data, resp, store, message, thread_ts,
                   bot_user_id, thread_context, conversation_id, full_answer,
                   response_conversation_id, last_update_time, current_time,
                   now, chunks_seen, max_chunks, completion_error, e, response, answer,
                   ref, ctx_in, ctx_out,
                   chunk_names, deliveries, history>>

\* lines 148-161: the streaming chat invocation
ChatInvoke ==
    /\ pc = "invoke"
    /\ \E out \in Outcomes("chat.invoke", {"ok", "raise", AppTypeError}) :
         /\ calls' = Append(calls,
                Call("chat.invoke", FullQuery \o <<conversation_id>>, out, 0))
         /\ IF out = "ok"
            THEN /\ full_answer' = <<>>
                 /\ response_conversation_id' = ""
                 /\ last_update_time' = now
                 /\ streaming_error' = streaming_error
                 /\ pc' = "stream"
            ELSE /\ full_answer' = full_answer
                 /\ response_conversation_id' = response_conversation_id
                 /\ last_update_time' = last_update_time
                 /\ streaming_error' = IF out = "raise" THEN "chat.invoke failed"
                                        ELSE out
                 /\ pc' = "completion"
    /\ UNCHANGED <<settings, headers, data, resp, store, thread, message,
                   thread_ts, bot_user_id, thread_context, conversation_id,
                   response_ts, current_time, now, chunks_seen, max_chunks,
                   completion_error, e, response, answer, ref, ctx_in,
                   ctx_out,
                   chunk_names, deliveries, history>>

\* lines 163-187: one turn of the loop up to the decision to render: the
\* stream yields a chunk after a delay, ends, or raises
NextChunk ==
    /\ pc = "stream"
    /\ \E out \in Outcomes("next",
           (IF chunks_seen < max_chunks THEN chunk_names ELSE {}) \cup {"end", "raise"}) :
         \E dt \in (IF out \in chunk_names THEN DelaysOf("next") ELSE {0}) :
           /\ calls' = Append(calls, Call("next", <<>>, out, dt))
           /\ now' = now + dt
           /\ IF out = "end"
              THEN /\ pc' = "final"
                   /\ streaming_error' = streaming_error
                   /\ full_answer' = full_answer
                   /\ response_conversation_id' = response_conversation_id
                   /\ current_time' = current_time
                   /\ chunks_seen' = chunks_seen
              ELSE IF out = "raise"
              THEN /\ pc' = "completion"
                   /\ streaming_error' = "stream failed"
                   /\ full_answer' = full_answer
                   /\ response_conversation_id' = response_conversation_id
                   /\ current_time' = current_time
                   /\ chunks_seen' = chunks_seen
              ELSE /\ full_answer' = Accumulate(full_answer, Chunk(out))
                   /\ response_conversation_id' =
                          CaptureConversationId(response_conversation_id, Chunk(out))
                   /\ current_time' = now'
                   /\ chunks_seen' = chunks_seen + 1
                   /\ streaming_error' = streaming_error
                   /\ pc' = IF ShouldRender(current_time', last_update_time, full_answer')
                            THEN "update" ELSE "stream"
    /\ UNCHANGED <<settings, headers, data, resp, store, thread, message,
                   thread_ts, bot_user_id, thread_context, conversation_id,
                   response_ts, last_update_time, completion_error, e,
                   response, answer, max_chunks, ref, ctx_in, ctx_out,
                   chunk_names, deliveries, history>>

\* lines 188-207: the intermediate edit of the placeholder; a SlackApiError is
\* passed over, any other exception leaves the streaming path
IntermediateUpdate ==
    /\ pc = "update"
    /\ \E out \in Outcomes("chat_update", {"ok", "SlackApiError", "raise"}) :
         /\ calls' = Append(calls, Call("chat_update", Convert(full_answer), out, 0))
         /\ thread' = IF out = "ok"
                      THEN [thread EXCEPT ![response_ts] = Convert(full_answer)]
                      ELSE thread
         /\ last_update_time' = LastUpdateTime(out, current_time, last_update_time)
         /\ IF out = "raise"
            THEN pc' = "completion" /\ streaming_error' = "edit failed"
            ELSE pc' = "stream" /\ streaming_error' = streaming_error
    /\ UNCHANGED <<settings, headers, data, resp, store, message, thread_ts,
                   bot_user_id, thread_context, conversation_id, response_ts,
                   full_answer, response_conversation_id, current_time, now,
                   chunks_seen, max_chunks, completion_error, e, response, answer, ref,
                   ctx_in, ctx_out,
                   chunk_names, deliveries, history>>

\* lines 209-226, 234-241: the final edit of the placeholder
FinalUpdate ==
    /\ pc = "final"
    /\ \E out \in Outcomes("chat_update", {"ok", "raise"}) :
         /\ calls' = Append(calls, FinalUpdateCall(FinalUpdateText(full_answer), out))
         /\ IF out = "ok"
            THEN /\ thread' = [thread EXCEPT ![response_ts] = FinalUpdateText(full_answer)]
                 /\ streaming_error' = streaming_error
                 /\ pc' = IF full_answer # <<>> /\ response_conversation_id # ""
                          THEN "storage_set" ELSE "respond"
            ELSE /\ thread' = thread
                 /\ streaming_error' = "chat_update"
                 /\ pc' = "completion"
    /\ UNCHANGED <<settings, headers, data, resp, store, message, thread_ts,
                   bot_user_id, thread_context, conversation_id, response_ts,
                   full_answer, response_conversation_id, last_update_time,
                   current_time, now, chunks_seen, max_chunks, completion_error, e,
                   response, answer, ref, ctx_in, ctx_out,
                   chunk_names, deliveries, history>>

\* lines 228-233: the handle of the stream is stored; a failure is printed
StorageSet ==
    /\ pc = "storage_set"
    /\ \E out \in Outcomes("storage.set", {"ok", "raise"}) :
         /\ calls' = Append(calls,
                Call("storage.set", <<thread_ts, response_conversation_id>>, out, 0))
         /\ store' = IF out = "ok"
                     THEN StoreAfterSet(store, thread_ts, response_conversation_id)
                     ELSE store
         /\ pc' = AfterStorageSet(out)
    /\ UNCHANGED <<settings, headers, data, resp, thread, message, thread_ts,
                   bot_user_id, thread_context, conversation_id, response_ts,
                   full_answer, response_conversation_id, last_update_time,
                   current_time, now, chunks_seen, max_chunks, streaming_error,
                   completion_error, e, response, answer, ref, ctx_in,
                   ctx_out,
                   chunk_names, deliveries, history>>

\* lines 243-256, 281-283: the blocking completion call of the fallback
CompletionInvoke ==
    /\ pc = "completion"
    /\ \E out \in Outcomes("completion.invoke", Completions \cup {"raise"}) :
         /\ calls' = Append(calls,
                Call("completion.invoke", FullQuery \o <<conversation_id>>, out, 0))
         /\ IF out = "raise"
            THEN /\ completion_error' = "completion.invoke failed"
                 /\ e' = Reraised(streaming_error, completion_error')
                 /\ response' = response /\ answer' = answer
                 /\ pc' = AfterFallbackFailure(streaming_error)
            ELSE /\ response' = out
                 /\ answer' = CompletionAnswer(out)
                 /\ completion_error' = completion_error /\ e' = e
                 /\ pc' = "post_answer"
    /\ UNCHANGED <<settings, headers, data, resp, store, thread, message,
                   thread_ts, bot_user_id, thread_context, conversation_id,
                   response_ts, full_answer, response_conversation_id,
                   last_update_time, current_time, now, chunks_seen, max_chunks,
                   streaming_error, ref, ctx_in, ctx_out,
                   chunk_names, deliveries, history>>

\* lines 256-276, 281-283: the answer of the fallback is posted as a new
\* message of the thread
PostAnswer ==
    /\ pc = "post_answer"
    /\ \E out \in Outcomes("chat_postMessage", {"ok", "raise"}) :
         /\ calls' = Append(calls, Call("chat_postMessage", Convert(answer), out, 0))
         /\ IF out = "ok"
            THEN /\ thread' = Append(thread, Convert(answer))
                 /\ response_conversation_id' = CompletionConversationId(response)
                 /\ completion_error' = completion_error /\ e' = e
                 /\ pc' = IF response_conversation_id' # ""
                          THEN "fallback_storage_set" ELSE "respond"
            ELSE /\ thread' = thread
                 /\ response_conversation_id' = response_conversation_id
                 /\ completion_error' = "answer post failed"
                 /\ e' = Reraised(streaming_error, completion_error')
                 /\ pc' = AfterFallbackFailure(streaming_error)
    /\ UNCHANGED <<settings, headers, data, resp, store, message, thread_ts,
                   bot_user_id, thread_context, conversation_id, response_ts,
                   full_answer, last_update_time, current_time, now,
                   chunks_seen, max_chunks, streaming_error, response, answer, ref,
                   ctx_in, ctx_out,
                   chunk_names, deliveries, history>>

\* lines 276-280: the handle of the completion is stored
FallbackStorageSet ==
    /\ pc = "fallback_storage_set"
    /\ \E out \in Outcomes("storage.set", {"ok", "raise"}) :
         /\ calls' = Append(calls,
                Call("storage.set", <<thread_ts, response_conversation_id>>, out, 0))
         /\ store' = IF out = "ok"
                     THEN StoreAfterSet(store, thread_ts, response_conversation_id)
                     ELSE store
         /\ pc' = AfterStorageSet(out)
    /\ UNCHANGED <<settings, headers, data, resp, thread, message, thread_ts,
                   bot_user_id, thread_context, conversation_id, response_ts,
                   full_answer, response_conversation_id, last_update_time,
                   current_time, now, chunks_seen, max_chunks, streaming_error,
                   completion_error, e, response, answer, ref, ctx_in,
                   ctx_out,
                   chunk_names, deliveries, history>>

\* lines 285-289
Respond ==
    /\ pc = "respond"
    /\ resp' = SuccessResponse
    /\ pc' = "done"
    /\ UNCHANGED <<settings, headers, data, calls, store, thread, message,
                   thread_ts, bot_user_id, thread_context, conversation_id,
                   response_ts, full_answer, response_conversation_id,
                   last_update_time, current_time, now, chunks_seen, max_chunks,
                   streaming_error, completion_error, e, response, answer,
                   ref, ctx_in, ctx_out,
                   chunk_names, deliveries, history>>

\* lines 290-310: the main handler posts the apology and answers
ErrorHandler ==
    /\ pc = "handler"
    /\ \E out \in Outcomes("chat_postMessage", {"ok", "raise"}) :
         /\ calls' = Append(calls, Call("chat_postMessage", ApologyText(e), out, 0))
         /\ thread' = IF out = "ok" THEN Append(thread, ApologyText(e)) ELSE thread
    /\ resp' = ErrorResponse(e)
    /\ pc' = "done"
    /\ UNCHANGED <<settings, headers, data, store, message, thread_ts,
                   bot_user_id, thread_context, conversation_id, response_ts,
                   full_answer, response_conversation_id, last_update_time,
                   current_time, now, chunks_seen, max_chunks, streaming_error,
                   completion_error, e, response, answer, ref, ctx_in,
                   ctx_out,
                   chunk_names, deliveries, history>>

\* A second delivery of the same payload under the same settings and the same
\* store, without the retry headers, that meets the collaborator behaviour the
\* first one met
Restart ==
    /\ pc = "done"
    /\ ref.run = 1
    /\ settings.allow_retry
    /\ headers # [retry_num |-> None, retry_reason |-> None]
    /\ ref' = [run |-> 2, headers |-> headers, resp |-> resp, calls |-> calls,
               store |-> ref.store]
    /\ headers' = [retry_num |-> None, retry_reason |-> None]
    /\ store' = ref.store
    /\ pc' = "start"
    /\ resp' = NoResp
    /\ calls' = <<>>
    /\ thread' = <<>>
    /\ message' = <<>>
    /\ thread_ts' = None
    /\ bot_user_id' = None
    /\ thread_context' = <<>>
    /\ conversation_id' = None
    /\ response_ts' = 0
    /\ full_answer' = <<>>
    /\ response_conversation_id' = None
    /\ last_update_time' = 0
    /\ current_time' = 0
    /\ now' = 0
    /\ chunks_seen' = 0
    /\ streaming_error' = None
    /\ completion_error' = None
    /\ e' = None
    /\ response' = None
    /\ answer' = <<>>
    /\ UNCHANGED <<settings, data, max_chunks, ctx_in, ctx_out,
                   chunk_names, deliveries, history>>

\* ------------------------------------- _get_thread_context on its own
\* thread histories: up to MaxMsgs messages with increasing ts, written by
\* a user, by the bot under its user id, by an integration (bot_id) or by
\* nobody known; some texts start with a mention
Authors == { [user |-> "U1", bot_id |-> None], [user |-> "UB", bot_id |-> None],
             [user |-> "U2", bot_id |-> "B1"], [user |-> None, bot_id |-> None] }

Texts == { <<"B">>, <<"<@", "UB", "> ", "C">> }

TsOf(i) == <<"t0", "t1", "t2", "t3", "t4", "t5">>[i]

Histories ==
    UNION { { [i \in 1..n |-> [ts |-> TsOf(i), user |-> au[i].user,
                               bot_id |-> au[i].bot_id, text |-> tx[i]]] :
                au \in [1..n -> Authors], tx \in [1..n -> Texts] } :
            n \in 0..MaxMsgs }

InitContext ==
    /\ settings = [allow_retry |-> FALSE]
    /\ headers = [retry_num |-> None, retry_reason |-> None]
    /\ data = [type |-> "other", challenge |-> None, event_type |-> None,
               text |-> <<>>, ts |-> None, thread_ts |-> None]
    /\ store = [k \in ThreadKeys |-> None]
    /\ max_chunks = 0
    /\ chunk_names = {}
    /\ deliveries = <<>>
    /\ history = <<>>
    /\ pc = "context_call"
    /\ Fresh
    /\ ctx_in \in [fetched : BOOLEAN, messages : Histories,
                   current : {TsOf(i) : i \in 1..MaxMsgs}, bot : {"UB"}]
    /\ ctx_out = <<"not called">>

\* lines 15-72: _get_thread_context(client, channel, thread_ts,
\* current_message_ts, bot_user_id) returns
CallGetThreadContext ==
    /\ pc = "context_call"
    /\ ctx_out' = GetThreadContext(ctx_in.fetched, ctx_in.messages, ctx_in.current,
                                   ctx_in.bot)
    /\ pc' = "context_returned"
    /\ UNCHANGED <<settings, headers, data, resp, calls, store, thread,
                   message, thread_ts, bot_user_id, thread_context,
                   conversation_id, response_ts, full_answer,
                   response_conversation_id, last_update_time, current_time,
                   now, chunks_seen, max_chunks, streaming_error,
                   completion_error, e, response, answer, ref, ctx_in,
                   chunk_names, deliveries, history>>

Next ==
    \/ Dedup
    \/ Dispatch
    \/ AuthTest
    \/ ThreadContext
    \/ StorageGet
    \/ PostPlaceholder
    \/ ChatInvoke
    \/ NextChunk
    \/ IntermediateUpdate
    \/ FinalUpdate
    \/ StorageSet
    \/ CompletionInvoke
    \/ PostAnswer
    \/ FallbackStorageSet
    \/ Respond
    \/ ErrorHandler

Spec == Init /\ [][Next]_vars

SpecStream == InitStream /\ [][Next]_vars

NextTwin == Next \/ Restart

SpecTwin == InitTwin /\ [][NextTwin]_vars

NextContext == CallGetThreadContext

SpecContext == InitContext /\ [][NextContext]_vars

\* --------------------------------------------- concurrent deliveries
\* Several deliveries of mentions run _invoke at once.  They share nothing
\* but the store, so each is followed through the steps that read or decide
\* what is written there: storage.get, the streaming call, the blocking
\* completion, storage.set.  Each step is one call; steps of different
\* deliveries interleave freely.

\* deliveries under way at once
MaxDeliveries == 2

\* the handles the backend can answer with
Handles == {"c1", "c2"}

\* the mentions among the payloads
Mentions == {d \in Payloads : IsMention(d)}

\* a delivery about to read the store
NewDelivery(d) ==
    [pc |-> "storage_get", data |-> d, thread_ts |-> None,
     conversation_id |-> None, response_conversation_id |-> None]

InitConcurrent ==
    /\ settings = [allow_retry |-> FALSE]
    /\ headers = [retry_num |-> None, retry_reason |-> None]
    /\ data = [type |-> "other", challenge |-> None, event_type |-> None,
               text |-> <<>>, ts |-> None, thread_ts |-> None]
    /\ store \in {[k \in ThreadKeys |-> None], [k \in ThreadKeys |-> "c0"]}
    /\ max_chunks = 0
    /\ chunk_names = {}
    /\ pc = "concurrent"
    /\ Fresh
    /\ NoContextCall
    /\ deliveries \in [1..MaxDeliveries -> {NewDelivery(d) : d \in Mentions}]
    /\ history = [returned |-> [k \in ThreadKeys |-> {}], last_set |-> store,
                  touched |-> {}]

\* lines 98-124 of one delivery: the thread anchor, the key, storage.get
DeliveryStorageGet(id) ==
    /\ deliveries[id].pc = "storage_get"
    /\ LET key == ThreadTs(deliveries[id].data)
       IN /\ \E out \in {store[key], "raise"} :
                deliveries' = [deliveries EXCEPT ![id] =
                    [@ EXCEPT !.pc = "invoke", !.thread_ts = key,
                              !.conversation_id = StoredConversationId(out)]]
          /\ history' = [history EXCEPT !.touched = @ \cup {<<id, key>>}]
    /\ UNCHANGED <<settings, headers, data, pc, resp, calls, store, thread,
                   message, thread_ts, bot_user_id, thread_context,
                   conversation_id, response_ts, full_answer,
                   response_conversation_id, last_update_time, current_time,
                   now, chunks_seen, max_chunks, streaming_error,
                   completion_error, e, response, answer, ref, ctx_in,
                   ctx_out, chunk_names>>

\* lines 138-241 of one delivery: the streaming path raises, or ends with
\* the handle h captured from its chunks ("" for none) and with an answer
\* collected or not; the handle goes to the store when both are there
DeliveryStream(id) ==
    /\ deliveries[id].pc = "invoke"
    /\ \/ /\ deliveries' = [deliveries EXCEPT ![id].pc = "completion"]
          /\ history' = history
       \/ \E h \in Handles \cup {""}, answered \in BOOLEAN :
             /\ deliveries' = [deliveries EXCEPT ![id] =
                    [@ EXCEPT !.response_conversation_id = h,
                              !.pc = IF answered /\ h # ""
                                     THEN "storage_set" ELSE "done"]]
             /\ history' = IF h = "" THEN history
                           ELSE [history EXCEPT
                                    !.returned[deliveries[id].thread_ts] =
                                        @ \cup {h}]
    /\ UNCHANGED <<settings, headers, data, pc, resp, calls, store, thread,
                   message, thread_ts, bot_user_id, thread_context,
                   conversation_id, response_ts, full_answer,
                   response_conversation_id, last_update_time, current_time,
                   now, chunks_seen, max_chunks, streaming_error,
                   completion_error, e, response, answer, ref, ctx_in,
                   ctx_out, chunk_names>>

\* lines 243-283 of one delivery: the blocking fallback raises (completion
\* or the post of its answer), or answers with the handle h ("" for none)
DeliveryCompletion(id) ==
    /\ deliveries[id].pc = "completion"
    /\ \/ /\ deliveries' = [deliveries EXCEPT ![id].pc = "done"]
          /\ history' = history
       \/ \E h \in Handles \cup {""} :
             /\ deliveries' = [deliveries EXCEPT ![id] =
                    [@ EXCEPT !.response_conversation_id = h,
                              !.pc = IF h # "" THEN "storage_set" ELSE "done"]]
             /\ history' = IF h = "" THEN history
                           ELSE [history EXCEPT
                                    !.returned[deliveries[id].thread_ts] =
                                        @ \cup {h}]
    /\ UNCHANGED <<settings, headers, data, pc, resp, calls, store, thread,
                   message, thread_ts, bot_user_id, thread_context,
                   conversation_id, response_ts, full_answer,
                   response_conversation_id, last_update_time, current_time,
                   now, chunks_seen, max_chunks, streaming_error,
                   completion_error, e, response, answer, ref, ctx_in,
                   ctx_out, chunk_names>>

\* lines 228-233 and 276-280 of one delivery: storage.set, its failure printed
DeliveryStorageSet(id) ==
    /\ deliveries[id].pc = "storage_set"
    /\ LET key == deliveries[id].thread_ts
           value == deliveries[id].response_conversation_id
       IN \E out \in {"ok", "raise"} :
             /\ store' = IF out = "ok" THEN StoreAfterSet(store, key, value)
                         ELSE store
             /\ history' = [history EXCEPT
                    !.touched = @ \cup {<<id, key>>},
                    !.last_set = IF out = "ok" THEN [@ EXCEPT ![key] = value]
                                 ELSE @]
    /\ deliveries' = [deliveries EXCEPT ![id].pc = "done"]
    /\ UNCHANGED <<settings, headers, data, pc, resp, calls, thread,
                   message, thread_ts, bot_user_id, thread_context,
                   conversation_id, response_ts, full_answer,
                   response_conversation_id, last_update_time, current_time,
                   now, chunks_seen, max_chunks, streaming_error,
                   completion_error, e, response, answer, ref, ctx_in,
                   ctx_out, chunk_names>>

NextConcurrent ==
    \/ \E id \in DOMAIN deliveries : DeliveryStorageGet(id)
    \/ \E id \in DOMAIN deliveries : DeliveryStream(id)
    \/ \E id \in DOMAIN deliveries : DeliveryCompletion(id)
    \/ \E id \in DOMAIN deliveries : DeliveryStorageSet(id)

SpecConcurrent == InitConcurrent /\ [][NextConcurrent]_vars

\* ------------------------------------------------------------- properties
NoHeaders == [retry_num |-> None, retry_reason |-> None]

\* the delivery carries a retry header that makes it a retry: the reason
\* http_timeout, or a retry count above zero
IsRetry(h) == h.retry_reason = "http_timeout" \/ h.retry_num \notin {None, "0"}

BareOk(r) == r.kind = "text_ok" /\ r.status = 200

\* C1: every delivery ends with an HTTP 200 response, whatever the payload
\* and whichever collaborator fails.
C1_AlwaysHttp200 == pc = "done" => resp.status = 200

\* C2 as stated: a url_verification delivery is answered with its challenge
\* and calls no collaborator, whatever the retry headers and allow_retry.
C2_ChallengeEchoedAlways ==
    (pc = "done" /\ data.type = "url_verification")
        => (resp.kind = "challenge" /\ resp.challenge = data.challenge
            /\ calls = <<>>)

\* C2 amended: a url_verification delivery that is not discarded as a retry
\* (allow_retry is true, or the delivery is no retry) is answered with status
\* 200 and its challenge, and calls no collaborator at any point.
C2_ChallengeEchoedUnlessDiscarded ==
    (data.type = "url_verification" /\ (settings.allow_retry \/ ~IsRetry(headers)))
        => /\ calls = <<>>
           /\ pc = "done" => /\ resp.kind = "challenge"
                             /\ resp.status = 200
                             /\ resp.challenge = data.challenge

\* a retried handshake is answered with its challenge when allow_retry is true
C2_Witness ==
    /\ pc = "done" /\ data.type = "url_verification" /\ data.challenge = "ch2"
    /\ settings.allow_retry /\ headers.retry_num = "1"
    /\ resp.kind = "challenge" /\ resp.challenge = "ch2"

\* C3: with allow_retry false, a delivery whose retry reason is http_timeout
\* or whose retry count is above zero is answered with the bare "ok" and
\* calls no collaborator: nothing is logged, posted or stored at any point.
C3_RetryDiscarded ==
    (~settings.allow_retry /\ IsRetry(headers))
        => /\ calls = <<>> /\ thread = <<>> /\ store = ref.store
           /\ pc \in {"start", "done"}
           /\ pc = "done" => BareOk(resp)

\* a mention redelivered with retry count 1 and no reason has been dropped
C3_Witness ==
    /\ pc = "done" /\ ~settings.allow_retry
    /\ headers = [retry_num |-> "1", retry_reason |-> None]
    /\ IsMention(data)
    /\ BareOk(resp) /\ calls = <<>>

\* C4: with allow_retry true, a delivery with retry headers ends with the
\* response and the sequence of collaborator calls (arguments, outcomes and
\* times included) of the delivery of the same payload without the headers,
\* the collaborators behaving alike.
C4_HeadersWithoutInfluence ==
    (ref.run = 2 /\ pc = "done" /\ settings.allow_retry)
        => (resp = ref.resp /\ calls = ref.calls)

\* both deliveries of a mention, the first one being a retry after a
\* timeout, streamed an answer and stored the handle
C4_Witness ==
    /\ ref.run = 2 /\ pc = "done" /\ settings.allow_retry
    /\ ref.headers = [retry_num |-> "1", retry_reason |-> "http_timeout"]
    /\ headers = NoHeaders
    /\ resp.kind = "json_ok" /\ ref.resp.kind = "json_ok"
    /\ \E i \in 1..Len(calls) : calls[i].op = "storage.set"
    /\ \E i \in 1..Len(ref.calls) : ref.calls[i].op = "storage.set"

\* C5: a delivery that is not discarded as a retry and is not the handshake,
\* and whose payload is no event_callback, or whose event is no app_mention,
\* or whose text does not begin with "<@", is answered with the bare "ok"
\* and calls no collaborator at any point.
C5_OtherEventsIgnored ==
    (/\ settings.allow_retry \/ ~IsRetry(headers)
     /\ data.type # "url_verification"
     /\ \/ data.type # "event_callback"
        \/ data.event_type # "app_mention"
        \/ ~(Len(data.text) > 0 /\ data.text[1] = "<@"))
        => /\ calls = <<>> /\ thread = <<>> /\ store = ref.store
           /\ pc \in {"start", "dispatch", "done"}
           /\ pc = "done" => BareOk(resp)

\* an app_mention whose text has the marker, but not at its start, has
\* been acknowledged
C5_Witness ==
    /\ pc = "done" /\ data.type = "event_callback"
    /\ data.event_type = "app_mention"
    /\ data.text = <<"hi", "<@", "UB", "> ">>
    /\ BareOk(resp) /\ calls = <<>>

\* C6: when the streaming path failed with E1 and the blocking fallback
\* failed with E2, the apology posted to the thread and the response body
\* carry E1, and not E2.
C6_FirstErrorSurfaced ==
    (pc = "done" /\ completion_error # None)
        => /\ streaming_error # None
           /\ completion_error # streaming_error
           /\ resp.kind = "json_error" /\ resp.error = streaming_error
           /\ calls[Len(calls)].op = "chat_postMessage"
           /\ calls[Len(calls)].arg = ApologyText(streaming_error)

\* the stream raised, the completion answered, posting its answer failed
\* and the apology was posted
C6_Witness ==
    /\ pc = "done"
    /\ streaming_error = "stream failed"
    /\ completion_error = "answer post failed"
    /\ resp.error = "stream failed"
    /\ Len(thread) = 2 /\ thread[2] = ApologyText("stream failed")

\* positions in the call log
IsStreamEnd(i) == calls[i].op = "next" /\ calls[i].out = "end"

IsFinalEdit(i) ==
    calls[i].op = "chat_update" /\ \E k \in 1..(i - 1) : IsStreamEnd(k)

IsIntermediateEdit(i) ==
    calls[i].op = "chat_update" /\ ~\E k \in 1..(i - 1) : IsStreamEnd(k)

IsPlaceholderPost(i) ==
    calls[i].op = "chat_postMessage" /\ calls[i].arg = ThinkingText

\* the text a logged chunk stands for
LoggedChunkText(name) ==
    CASE name = "answer" -> <<"Hel">>
      [] name = "text" -> <<"lo">>
      [] name = "str" -> <<"**">>
      [] name = "snapshot" -> <<"Hel", "lo">>
      [] OTHER -> <<>>

RECURSIVE LoggedText(_)
\* the texts of the chunks among the first n calls, in order
LoggedText(n) ==
    IF n = 0 THEN <<>>
    ELSE LoggedText(n - 1) \o (IF calls[n].op = "next"
                               THEN LoggedChunkText(calls[n].out) ELSE <<>>)

\* C7: once the stream has ended without an exception, the next call is the
\* one final chat_update of the placeholder, whatever the time since the last
\* intermediate edit; it carries the whole accumulated answer (converted) when
\* there is one and "Sorry, I couldn't generate a response." otherwise, never
\* "Thinking...", and when it succeeds the placeholder shows that text.
C7_OneFinalEdit ==
    \A k \in 1..Len(calls) : IsStreamEnd(k) =>
        /\ (pc = "final") = (Len(calls) = k)
        /\ Len(calls) > k =>
             /\ calls[k + 1].op = "chat_update"
             /\ full_answer = LoggedText(k)
             /\ calls[k + 1].arg = (IF LoggedText(k) # <<>>
                                    THEN Convert(LoggedText(k))
                                    ELSE NoAnswerText)
             /\ calls[k + 1].arg # ThinkingText
             /\ \A j \in (k + 2)..Len(calls) : calls[j].op # "chat_update"
             /\ calls[k + 1].out = "ok" =>
                    /\ thread[response_ts] = calls[k + 1].arg
                    /\ thread[response_ts] # ThinkingText

\* the stream ended right after a successful intermediate edit, and the
\* final edit was issued at that same moment with the whole answer
C7_Witness ==
    \E k \in 2..(Len(calls) - 1) :
        /\ IsStreamEnd(k)
        /\ IsIntermediateEdit(k - 1) /\ calls[k - 1].out = "ok"
        /\ calls[k + 1].op = "chat_update" /\ calls[k + 1].out = "ok"
        /\ calls[k + 1].at = calls[k - 1].at
        /\ full_answer = <<"Hel", "lo">>
        /\ thread[response_ts] = <<"Hel", "lo">>

\* C8 as stated: intermediate edits of the placeholder are issued at least
\* one render interval (1 second) apart, and the first one at least one
\* interval after the stream started, also when an edit call fails.
C8_EditsThrottled ==
    \A j \in 1..Len(calls) : IsIntermediateEdit(j) =>
        /\ calls[j].arg # <<>>
        /\ \A i \in 1..(j - 1) :
              (IsIntermediateEdit(i) \/ calls[i].op = "chat.invoke")
                  => calls[j].at - calls[i].at >= update_interval

\* C9 as stated: a mention turn posts exactly one placeholder, and no other
\* message is posted in the thread before the final edit of the placeholder,
\* the blocking fallback included.
C9_NoPostBeforeFinalEdit ==
    (pc = "done" /\ \E i \in 1..Len(calls) : calls[i].op = "chat_postMessage")
        => /\ Cardinality({i \in 1..Len(calls) :
                  IsPlaceholderPost(i) /\ calls[i].out = "ok"}) = 1
           /\ \A j \in 1..Len(calls) :
                 (calls[j].op = "chat_postMessage" /\ ~IsPlaceholderPost(j))
                     => \E k \in 1..(j - 1) : IsFinalEdit(k)

\* C9 amended: a mention turn attempts exactly one placeholder post, first
\* among its chat calls; every edit is an edit of that placeholder; as long
\* as the streaming path has not raised, nothing else is posted and the
\* thread holds the placeholder alone, which a successful turn leaves showing
\* the final text; any other message (the fallback's answer, the apology)
\* is posted only after the streaming path has raised.
C9_PlaceholderEditedWhileStreaming ==
    /\ Cardinality({i \in 1..Len(calls) : IsPlaceholderPost(i)}) <= 1
    /\ \A i \in 1..Len(calls) :
          calls[i].op \in {"chat_postMessage", "chat_update", "chat.invoke"}
              => \E p \in 1..i : IsPlaceholderPost(p)
    /\ \A i \in 1..Len(calls) : calls[i].op = "chat_update" =>
          /\ response_ts = 1 /\ Len(thread) >= 1
          /\ \E p \in 1..(i - 1) : IsPlaceholderPost(p) /\ calls[p].out = "ok"
          /\ (i = Len(calls) /\ calls[i].out = "ok") => thread[1] = calls[i].arg
    /\ streaming_error = None =>
          /\ \A i \in 1..Len(calls) :
                calls[i].op = "chat_postMessage" => IsPlaceholderPost(i)
          /\ Len(thread) <= 1
          /\ (pc = "done" /\ resp.kind = "json_ok") =>
                thread = <<FinalUpdateText(full_answer)>>
    /\ \A j \in 1..Len(calls) :
          (calls[j].op = "chat_postMessage" /\ ~IsPlaceholderPost(j)) =>
              /\ streaming_error # None
              /\ \E k \in 1..(j - 1) :
                    /\ calls[k].out \in {"raise", AppTypeError}
                    /\ calls[k].op \in {"chat_postMessage", "chat.invoke",
                                        "next", "chat_update"}

\* the stream raised and the fallback posted its answer as a second message,
\* the placeholder still showing "Thinking..."
C9_Witness ==
    /\ pc = "done" /\ resp.kind = "json_ok"
    /\ streaming_error = "stream failed"
    /\ thread = <<ThinkingText, Convert(answer)>>

\* the window of C10: the messages after the last bot-authored message other
\* than the current mention and before the current mention
C10_Window(messages, current, bot) ==
    LET cur == CHOOSE i \in 1..Len(messages) : messages[i].ts = current
        bots == {i \in 1..Len(messages) :
                    /\ messages[i].ts # current
                    /\ (messages[i].bot_id # None \/ messages[i].user = bot)}
    IN {i \in 1..Len(messages) : i < cur /\ \A b \in bots : b < i}

RECURSIVE C10_Lines(_, _, _)
\* the messages of the window from position i on, one line each
C10_Lines(messages, W, i) ==
    IF i > Len(messages) THEN <<>>
    ELSE IF i \in W
         THEN ContextPart(messages[i]) \o <<"\n">> \o C10_Lines(messages, W, i + 1)
         ELSE C10_Lines(messages, W, i + 1)

\* C10 as stated: _get_thread_context returns the messages strictly after
\* the last bot-authored message (other than the current mention) and
\* strictly before the current mention, in order, as "[author]: text" lines
\* joined by newlines and followed by a blank line; "" when the window is
\* empty or the history fetch failed.
C10_ContextIsWindowBeforeMention ==
    (/\ pc = "context_returned"
     /\ \E i \in 1..Len(ctx_in.messages) : ctx_in.messages[i].ts = ctx_in.current)
        => ctx_out =
             LET W == C10_Window(ctx_in.messages, ctx_in.current, ctx_in.bot)
             IN IF ~ctx_in.fetched \/ W = {} THEN <<>>
                ELSE C10_Lines(ctx_in.messages, W, 1) \o <<"\n">>

KeyOfDelivery == IF data.thread_ts # None THEN data.thread_ts ELSE data.ts

\* the handle a logged chunk carries, "" when it carries none
LoggedChunkHandle(name) ==
    CASE name = "answer" -> "c1"
      [] name = "id" -> "c2"
      [] OTHER -> ""

RECURSIVE LoggedHandle(_)
\* the last handle carried by a chunk among the first n calls
LoggedHandle(n) ==
    IF n = 0 THEN ""
    ELSE IF calls[n].op = "next" /\ LoggedChunkHandle(calls[n].out) # ""
         THEN LoggedChunkHandle(calls[n].out)
         ELSE LoggedHandle(n - 1)

\* the handle the successful backend call of a finished turn yielded: the
\* stream's when the streaming path succeeded, the completion's when the
\* fallback succeeded, "" when the turn failed
YieldedHandle ==
    IF resp.kind # "json_ok" THEN ""
    ELSE IF \E i \in 1..Len(calls) : calls[i].op = "completion.invoke"
         THEN IF \E i \in 1..Len(calls) :
                    calls[i].op = "completion.invoke" /\ calls[i].out = "answer+id"
              THEN "c9" ELSE ""
         ELSE LoggedHandle(Len(calls))

\* C12 as stated: a finished turn performs a store set exactly when its
\* streaming invocation or its blocking fallback completed successfully and
\* yielded a non-empty handle, and the set writes that handle under the
\* thread's key; a failed turn and a turn without a handle set nothing.
C12_HandleStoredExactlyOnSuccess ==
    pc = "done" =>
        LET sets == {i \in 1..Len(calls) : calls[i].op = "storage.set"}
        IN /\ (YieldedHandle # "") =>
                 \E i \in sets : calls[i].arg = <<KeyOfDelivery, YieldedHandle>>
           /\ (YieldedHandle = "") => sets = {}
           /\ \A i \in sets : calls[i].arg = <<KeyOfDelivery, YieldedHandle>>

\* the handle a logged backend call was given: the last element of its
\* argument
HandleGiven(i) == calls[i].arg[Len(calls[i].arg)]

\* C13: a store get that raises leaves the turn with the empty handle, the
\* one it has when nothing is stored: the turn goes on, and every backend
\* call is given "".  A store set that raises comes right after the answer
\* was delivered and is the last call of the turn: no fallback and no apology
\* follow, the stored value stays as it was, and the response is the success
\* acknowledgement.
C13_StoreFailuresSwallowed ==
    /\ \A i \in 1..Len(calls) :
          (calls[i].op = "storage.get" /\ calls[i].out \in {"raise", None}) =>
              /\ conversation_id = ""
              /\ pc # "storage_get"
              /\ pc = "done" => resp.kind \in {"json_ok", "json_error"}
              /\ \A j \in (i + 1)..Len(calls) :
                    calls[j].op \in {"chat.invoke", "completion.invoke"}
                        => HandleGiven(j) = ""
    /\ \A i \in 1..Len(calls) :
          (calls[i].op = "storage.set" /\ calls[i].out = "raise") =>
              /\ i = Len(calls)
              /\ calls[i - 1].op \in {"chat_update", "chat_postMessage"}
              /\ calls[i - 1].out = "ok"
              /\ store = ref.store
              /\ e = None
              /\ pc \in {"respond", "done"}
              /\ pc = "done" => resp.kind = "json_ok" /\ resp.status = 200

\* the store raised on get and on set, the answer was streamed in between
\* and the delivery was acknowledged as a success
C13_Witness ==
    /\ pc = "done" /\ resp.kind = "json_ok"
    /\ \E i \in 1..Len(calls) :
          /\ calls[i].op = "storage.get" /\ calls[i].out = "raise"
          /\ \E j \in (i + 1)..Len(calls) :
                calls[j].op = "chat.invoke" /\ HandleGiven(j) = ""
    /\ calls[Len(calls)].op = "storage.set" /\ calls[Len(calls)].out = "raise"
    /\ store[thread_ts] = "c0"
    /\ thread = <<Convert(full_answer)>>

RECURSIVE LoggedChunks(_)
\* the shapes of the chunks among the first n calls, in order
LoggedChunks(n) ==
    IF n = 0 THEN <<>>
    ELSE LoggedChunks(n - 1) \o (IF calls[n].op = "next"
                                    /\ calls[n].out \notin {"end", "raise"}
                                 THEN <<calls[n].out>> ELSE <<>>)

C16_FallbackOnlyAfterStreamingRaised ==
    \A j \in 1..Len(calls) : calls[j].op = "completion.invoke" =>
        /\ \E p \in 1..(j - 1) : IsPlaceholderPost(p) /\ calls[p].out = "ok"
        /\ \E i \in 1..(j - 1) : calls[i].op = "chat.invoke"
        /\ calls[j - 1].op \in {"chat.invoke", "next"}
        /\ calls[j - 1].out \in {"raise", AppTypeError}
        /\ ~\E k \in 1..(j - 1) : IsStreamEnd(k)

\* C17 as stated: after any failure of an intermediate edit the turn goes on
\* reading the stream (the next call is a chunk read, no fallback is
\* entered), and when the read does not raise the edit of the placeholder is
\* attempted again right after it.
C17_FailedEditDoesNotAbort ==
    \A i \in 1..Len(calls) :
        (IsIntermediateEdit(i) /\ calls[i].out # "ok") =>
            /\ i = Len(calls) => pc = "stream" /\ streaming_error = None
            /\ i < Len(calls) => calls[i + 1].op = "next"
            /\ (i + 1 < Len(calls) /\ calls[i + 1].out # "raise")
                  => calls[i + 2].op = "chat_update"

\* the call is a post of the apology
IsApology(i) ==
    /\ calls[i].op = "chat_postMessage"
    /\ Len(calls[i].arg) = 2
    /\ calls[i].arg[1] =
           "Sorry, I'm having trouble processing your request. Error: "

\* the call is a call of the blocking fallback (the completion or the post
\* of its answer) that raised
IsFallbackRaise(i) ==
    /\ calls[i].out = "raise"
    /\ \/ calls[i].op = "completion.invoke"
       \/ /\ calls[i].op = "chat_postMessage"
          /\ i > 1
          /\ calls[i - 1].op = "completion.invoke"

\* C18: an apology is posted only right after a call of the blocking
\* fallback raised, the fallback having been entered because the streaming
\* path raised; it is attempted at most once; a turn acknowledged as a
\* success has none, and a finished turn whose fallback raised has exactly
\* one, whether posting it succeeded or not.
C18_ApologyOnlyOnFailedTurn ==
    LET apologies == {i \in 1..Len(calls) : IsApology(i)}
    IN /\ Cardinality(apologies) <= 1
       /\ \A i \in apologies :
             /\ i = Len(calls) /\ pc = "done" /\ resp.kind = "json_error"
             /\ i > 2 /\ IsFallbackRaise(i - 1)
             /\ \E j \in 2..(i - 1) :
                   /\ calls[j].op = "completion.invoke"
                   /\ calls[j - 1].out \in {"raise", AppTypeError}
       /\ (pc = "done" /\ resp.kind \in {"json_ok", "init_error", "text_ok"})
             => apologies = {}
       /\ (pc = "done" /\ \E k \in 1..Len(calls) : IsFallbackRaise(k))
             => Cardinality(apologies) = 1

\* streaming and fallback raised and so did the post of the apology: it was
\* attempted once and the thread shows the placeholder alone
C18_Witness ==
    /\ pc = "done" /\ resp.kind = "json_error"
    /\ IsApology(Len(calls)) /\ calls[Len(calls)].out = "raise"
    /\ Cardinality({i \in 1..Len(calls) : IsApology(i)}) = 1
    /\ thread = <<ThinkingText>>

\* the thread key of a concurrent delivery: thread_ts of its event, or ts
\* when the mention starts a thread
OwnKey(id) ==
    IF deliveries[id].data.thread_ts # None THEN deliveries[id].data.thread_ts
    ELSE deliveries[id].data.ts

\* C19: whatever the interleaving of concurrent deliveries, the value stored
\* under a thread key is the one that was there before, or a handle that a
\* backend call of a delivery of that thread returned; it is the value of the
\* last set that went through (last writer wins); every delivery reads and
\* writes the key of its own thread only, and the key of a thread that no
\* delivery belongs to keeps its value.
C19_LastWriterWinsPerThread ==
    /\ \A k \in ThreadKeys :
          store[k] \in {ref.store[k]} \cup history.returned[k]
    /\ store = history.last_set
    /\ \A t \in history.touched : t[2] = OwnKey(t[1])
    /\ \A k \in ThreadKeys :
          (\A id \in DOMAIN deliveries : OwnKey(id) # k)
              => store[k] = ref.store[k]

\* two deliveries of the same thread ran to their end with the handles c1
\* and c2; the thread's key holds c2, written last, and the other thread's
\* handle is as it was
C19_Witness ==
    /\ \A id \in DOMAIN deliveries : deliveries[id].pc = "done"
    /\ deliveries[1].data.thread_ts = "t1" /\ deliveries[2].data.thread_ts = "t1"
    /\ deliveries[1].response_conversation_id = "c1"
    /\ deliveries[2].response_conversation_id = "c2"
    /\ history.touched = {<<1, "t1">>, <<2, "t1">>}
    /\ history.returned["t1"] = {"c1", "c2"}
    /\ store = [k \in ThreadKeys |-> IF k = "t1" THEN "c2" ELSE "c0"]

\* the call is the post of the blocking fallback's answer
IsAnswerPost(i) ==
    /\ calls[i].op = "chat_postMessage"
    /\ i > 1
    /\ calls[i - 1].op = "completion.invoke"

\* the number of calls of an operation in the log
CallCount(op) == Cardinality({i \in 1..Len(calls) : calls[i].op = op})

\* C20: within one delivery there is never both a final edit of the
\* placeholder that went through and a post of the fallback's answer; the
\* backend is invoked at most once in streaming mode and at most once in
\* blocking mode, and storage.set is called at most once.
C20_AnswerDeliveredOnce ==
    /\ ~(/\ \E i \in 1..Len(calls) : IsFinalEdit(i) /\ calls[i].out = "ok"
         /\ \E j \in 1..Len(calls) : IsAnswerPost(j))
    /\ CallCount("chat.invoke") <= 1
    /\ CallCount("completion.invoke") <= 1
    /\ CallCount("storage.set") <= 1

\* the stream was read to its end, the final edit raised, and the fallback
\* posted its answer and stored its handle: one call of each kind
C20_Witness ==
    /\ pc = "done" /\ resp.kind = "json_ok"
    /\ \E i \in 1..Len(calls) : IsFinalEdit(i) /\ calls[i].out = "raise"
    /\ \E j \in 1..Len(calls) : IsAnswerPost(j) /\ calls[j].out = "ok"
    /\ CallCount("chat.invoke") = 1
    /\ CallCount("completion.invoke") = 1
    /\ CallCount("storage.set") = 1
    /\ store[thread_ts] = "c9"

====
